---- MODULE Spec2Model ----
(***************************************************************************)
(* Model of the cutting guard of pydrake_kuka (src/cutting_utils.py) and   *)
(* of the simulation host that steps it (src/kuka_flipping_sim.py).        *)
(*                                                                         *)
(* Lengths are in centimetres and forces in centinewtons, so that the      *)
(* vectors of the scenarios (0.1 m, 0.75 m, 50 N) are integers.            *)
(***************************************************************************)
EXTENDS Integers, Sequences, FiniteSets, TLC

(***************************************************************************)
(* Bounds of the model.                                                    *)
(***************************************************************************)
\* contacts the plant reports in one publish period
MaxContacts == 2
\* publish periods the host steps through before StepTo returns
MaxTicks == 2

(***************************************************************************)
(* Python values.                                                          *)
(***************************************************************************)
\* Python's None (cut_body_index = None); element ids and body indices are >= 0
None == -1

\* truth value of `if cut_body_index:` -- None and the integer 0 are both false
Truthy(v) == v # None /\ v # 0

(***************************************************************************)
(* numpy: 3-vectors, 4x4 homogeneous transforms.                           *)
(***************************************************************************)
Neg(v) == <<0 - v[1], 0 - v[2], 0 - v[3]>>

VecAdd(a, b) == <<a[1] + b[1], a[2] + b[2], a[3] + b[3]>>

\* tf[0:3, 0:3]
Rot(tf) == <<SubSeq(tf[1], 1, 3), SubSeq(tf[2], 1, 3), SubSeq(tf[3], 1, 3)>>

\* tf[0:3, 3]
Trans(tf) == <<tf[1][4], tf[2][4], tf[3][4]>>

\* M.dot(v)
Dot(M, v) == <<M[1][1] * v[1] + M[1][2] * v[2] + M[1][3] * v[3],
               M[2][1] * v[1] + M[2][2] * v[2] + M[2][3] * v[3],
               M[3][1] * v[1] + M[3][2] * v[2] + M[3][3] * v[3]>>

(***************************************************************************)
(* The environment: rigid body trees, kinematic states, contact records.   *)
(***************************************************************************)
\* body index -> collision element ids of the body
TreeBladeBlock == (0 :> {10, 11}) @@ (1 :> {20})

TreeBladeBlockZero == (0 :> {10, 11}) @@ (1 :> {20}) @@ (2 :> {0})

RigidBodyTrees == {TreeBladeBlock, TreeBladeBlockZero}

\* the arguments CuttingGuard is constructed with
CtorArgs == [cutting_body_index |-> 0,
             blade_start_pt |-> <<0, 0, 0>>,
             blade_stop_pt |-> <<20, 0, 0>>,
             cut_direction |-> <<1, 0, 0>>,
             min_cut_force |-> 500,
             blade_width |-> 1]

\* element ids the contact feed may name: 999 belongs to no body
ElementIds == {0, 10, 11, 20, 999}

\* (force, application point) pairs of the contact feed, world frame
Wrenches == {[force |-> <<0, 0, -5000>>, point |-> <<10, 0, 75>>],
             [force |-> <<300, -1, 2>>, point |-> <<1, 2, 3>>]}

\* a contact is between two different collision elements; the blade's second
\* element 11 is fed only in contact with its first (blade self-contact)
ElementPairs == {p \in ElementIds \X ElementIds :
                   /\ p[1] # p[2]
                   /\ 11 \in {p[1], p[2]} => 10 \in {p[1], p[2]}}

ContactInfos == {[element_id_1 |-> p[1], element_id_2 |-> p[2],
                  force |-> w.force, point |-> w.point] :
                 p \in ElementPairs, w \in Wrenches}

\* positions of the plant state: level, turned a quarter about z, and one the
\* kinematics cannot serve
KinematicStates == {"q_level", "q_turned", "q_nan"}

doKinematics(q) == q

\* rbt.relativeTransform(kinsol, body, base): 4x4 world-to-body transform
relativeTransform(kinsol, body_ind, base_ind) ==
    CASE kinsol = "q_level" ->
           [ok |-> TRUE, tf |-> << <<1, 0, 0, 0>>,
                                   <<0, 1, 0, 0>>,
                                   <<0, 0, 1, -75>>,
                                   <<0, 0, 0, 1>> >>]
      [] kinsol = "q_turned" ->
           [ok |-> TRUE, tf |-> << <<0, -1, 0, 5>>,
                                   <<1, 0, 0, -7>>,
                                   <<0, 0, 1, -75>>,
                                   <<0, 0, 0, 1>> >>]
      [] OTHER -> [ok |-> FALSE, tf |-> << >>]

(***************************************************************************)
(* State.                                                                  *)
(***************************************************************************)
VARIABLES
    rbt,                             \* the compiled tree the guard was given
    collision_id_to_body_index_map,  \* self.collision_id_to_body_index_map
    cutting_body_index,              \* self.cutting_body_index
    cutting_body_ids,                \* self.cutting_body_ids
    cut_direction,                   \* self.cut_direction
    min_cut_force,                   \* self.min_cut_force
    blade_pts,                       \* self.blade_pts (start, stop)
    blade_width,                     \* self.blade_width
    contact_results,                 \* the contact results of this period
    x,                               \* the plant state of this period        
    stdout,                          \* what the last publish printed
    lookups,                         \* contacts whose registry lookup ran
    raised,                          \* exception the last publish left with
    raised_at,                       \* contact_i it was raised at, 0 if none
    published,                       \* the guard has published this period
    t,                               \* publish periods completed
    pc                               \* where the host's main is

vars == <<rbt, collision_id_to_body_index_map, cutting_body_index,
          cutting_body_ids, cut_direction, min_cut_force, blade_pts,
          blade_width, contact_results, x, stdout, lookups, raised,
          raised_at, published, t, pc>>

guard_fields == <<collision_id_to_body_index_map, cutting_body_index,
                  cutting_body_ids, cut_direction, min_cut_force, blade_pts,
                  blade_width>>

(***************************************************************************)
(* CuttingGuard.__init__                                                   *)
(***************************************************************************)
get_num_bodies(tree) == Cardinality(DOMAIN tree)

RECURSIVE MapFromBody(_, _, _)
\* the loop `for k in range(num_bodies): for i in ids(k): map[i] = k`
MapFromBody(tree, k, map) ==
    IF k >= get_num_bodies(tree) THEN map
    ELSE MapFromBody(tree, k + 1,
                     [i \in (DOMAIN map) \cup tree[k] |->
                         IF i \in tree[k] THEN k ELSE map[i]])

BuildMap(tree) == MapFromBody(tree, 0, << >>)

Init ==
    /\ rbt \in RigidBodyTrees
    /\ collision_id_to_body_index_map = BuildMap(rbt)
    /\ cutting_body_index = CtorArgs.cutting_body_index
    /\ cutting_body_ids = rbt[CtorArgs.cutting_body_index]
    /\ cut_direction = CtorArgs.cut_direction
    /\ min_cut_force = CtorArgs.min_cut_force
    /\ blade_pts = <<CtorArgs.blade_start_pt, CtorArgs.blade_stop_pt>>
    /\ blade_width = CtorArgs.blade_width
    /\ contact_results = << >>
    /\ x \in KinematicStates
    /\ stdout = << >>
    /\ lookups = << >>
    /\ raised = "none"
    /\ raised_at = 0
    /\ published = FALSE
    /\ t = 0
    /\ pc = "StepTo"

(***************************************************************************)
(* CuttingGuard._DoPublish                                                 *)
(***************************************************************************)
\* the fields of self that _DoPublish reads
Self == [collision_id_to_body_index_map |-> collision_id_to_body_index_map,
         cutting_body_index |-> cutting_body_index,
         cutting_body_ids |-> cutting_body_ids]

\* lines 59-66, choosing the second element whatever the blade test says
ClassifyNoBladeTest(info, ids) ==
    [cut_body_index |-> info.element_id_2, cut_force |-> info.force]

\* lines 59-66, the elif branch taking the blade's own element
ClassifySameSide(info, ids) ==
    IF info.element_id_1 \in ids
      THEN [cut_body_index |-> info.element_id_2, cut_force |-> info.force]
    ELSE IF info.element_id_2 \in ids
      THEN [cut_body_index |-> info.element_id_2,
            cut_force |-> Neg(info.force)]
    ELSE [cut_body_index |-> None, cut_force |-> None]

\* lines 59-66, the elif branch not negating the force
ClassifyNoNegation(info, ids) ==
    IF info.element_id_1 \in ids
      THEN [cut_body_index |-> info.element_id_2, cut_force |-> info.force]
    ELSE IF info.element_id_2 \in ids
      THEN [cut_body_index |-> info.element_id_1, cut_force |-> info.force]
    ELSE [cut_body_index |-> None, cut_force |-> None]

\* lines 59-66: which element was struck, and the force the blade exerts
Classify(info, ids) ==
    IF info.element_id_1 \in ids
      THEN [cut_body_index |-> info.element_id_2, cut_force |-> info.force]
    ELSE IF info.element_id_2 \in ids
      THEN [cut_body_index |-> info.element_id_1,
            cut_force |-> Neg(info.force)]
    ELSE [cut_body_index |-> None, cut_force |-> None]

\* line 72
BodyForce(tf, cut_force) == Dot(Rot(tf), cut_force)

\* line 73 without the translation column
BodyCutPtRotOnly(tf, cut_pt) == Dot(Rot(tf), cut_pt)

\* line 73
BodyCutPt(tf, cut_pt) == VecAdd(Dot(Rot(tf), cut_pt), Trans(tf))

\* map[key] of a dict that inserts a default for a missing key
DictGetItemDefault(map, key) ==
    IF key \in DOMAIN map
      THEN [raised |-> FALSE, value |-> map[key], map |-> map]
      ELSE [raised |-> FALSE, value |-> 0, map |-> map @@ (key :> 0)]

\* map[key] of a plain dict: the value or a KeyError; the dict is left as is
DictGetItem(map, key) ==
    IF key \in DOMAIN map
      THEN [raised |-> FALSE, value |-> map[key], map |-> map]
      ELSE [raised |-> TRUE, value |-> None, map |-> map]

\* lines 74-75 as one print statement: nothing is printed when the lookup fails
EmitAtomic(line74, got) ==
    IF got.raised THEN << >>
    ELSE <<[line74 EXCEPT !.body_index = got.value]>>

\* lines 74-75: line 74 prints the element, force and point and leaves the
\* line open; line 75 completes it with the body index once the lookup returned
Emit(line74, got) ==
    IF got.raised THEN <<line74>>
    ELSE <<[line74 EXCEPT !.body_index = got.value]>>

\* the exception of a guard that stops the simulation at a reported cut
RaisedByHalting(got) == IF got.raised THEN "KeyError" ELSE "StopIteration"

\* the exception lines 74-75 leave with: the lookup's KeyError or none
RaisedBy(got) == IF got.raised THEN "KeyError" ELSE "none"

\* the body of the loop over the contacts, lines 57-75
ContactStep(self, info, contact_i, q, acc) ==
    LET c == Classify(info, self.cutting_body_ids)
    IN  IF ~Truthy(c.cut_body_index) THEN acc
        ELSE
          LET kinsol == doKinematics(q)
              tfr == relativeTransform(kinsol, self.cutting_body_index, 0)
          IN  IF ~tfr.ok
                THEN [acc EXCEPT !.raised = "RuntimeError",
                                 !.raised_at = contact_i]
                ELSE
                  LET line74 == [contact_i |-> contact_i,
                                 cut_body_index |-> c.cut_body_index,
                                 body_force |-> BodyForce(tfr.tf, c.cut_force),
                                 body_cut_pt |-> BodyCutPt(tfr.tf, info.point),
                                 body_index |-> None]
                      got == DictGetItem(acc.map, c.cut_body_index)
                      exc == RaisedBy(got)
                  IN  [stdout |-> acc.stdout \o Emit(line74, got),
                       lookups |-> Append(acc.lookups, contact_i),
                       map |-> got.map,
                       raised |-> exc,
                       raised_at |-> IF exc = "none" THEN 0 ELSE contact_i]

RECURSIVE PublishFrom(_, _, _, _, _)
\* `for contact_i in range(num_contacts)`, left at the first exception
PublishFrom(self, results, q, contact_i, acc) ==
    IF contact_i > Len(results) \/ acc.raised # "none" THEN acc
    ELSE PublishFrom(self, results, q, contact_i + 1,
                     ContactStep(self, results[contact_i], contact_i, q, acc))

\* one call of _DoPublish on the contact results and the plant state
DoPublish(self, results, q) ==
    PublishFrom(self, results, q, 1,
                [stdout |-> << >>, lookups |-> << >>,
                 map |-> self.collision_id_to_body_index_map,
                 raised |-> "none", raised_at |-> 0])

(***************************************************************************)
(* The host: simulator.StepTo inside main's try/except.                    *)
(***************************************************************************)
\* where main goes after StepTo leaves with exception e
ExceptClause(e) ==
    CASE e = "none" -> "StepTo"
      [] e = "StopIteration" -> "final"
      [] e = "RuntimeError" -> "final"
      [] OTHER -> "traceback"

\* the plant reports one more contact for this period
PlantContact ==
    /\ pc = "StepTo" /\ ~published /\ t < MaxTicks
    /\ Len(contact_results) < MaxContacts
    /\ \E info \in ContactInfos : contact_results' = Append(contact_results, info)
    /\ UNCHANGED <<rbt, guard_fields, x, stdout, lookups, raised, raised_at,
                   published, t, pc>>

\* the periodic publish event: _DoPublish runs on the period's inputs
StepToPublish ==
    /\ pc = "StepTo" /\ ~published /\ t < MaxTicks
    /\ LET r == DoPublish(Self, contact_results, x)
       IN  /\ stdout' = r.stdout
           /\ lookups' = r.lookups
           /\ collision_id_to_body_index_map' = r.map
           /\ raised' = r.raised
           /\ raised_at' = r.raised_at
           /\ pc' = ExceptClause(r.raised)
    /\ published' = TRUE
    /\ UNCHANGED <<rbt, cutting_body_index, cutting_body_ids, cut_direction,
                   min_cut_force, blade_pts, blade_width, contact_results, x,
                   t>>

\* the integrator advances to the next publish time
StepToAdvance ==
    /\ pc = "StepTo" /\ published
    /\ t' = t + 1
    /\ published' = FALSE
    /\ contact_results' = << >>
    /\ stdout' = << >>
    /\ lookups' = << >>
    /\ x' \in KinematicStates
    /\ UNCHANGED <<rbt, guard_fields, raised, raised_at, pc>>

\* the context time reached the duration: StepTo returns
StepToReturn ==
    /\ pc = "StepTo" /\ ~published /\ t = MaxTicks
    /\ pc' = "final"
    /\ UNCHANGED <<rbt, guard_fields, contact_results, x, stdout, lookups,
                   raised, raised_at, published, t>>

Next == PlantContact \/ StepToPublish \/ StepToAdvance \/ StepToReturn

Spec == Init /\ [][Next]_vars

(***************************************************************************)
(* Notions the claims are stated in.                                       *)
(***************************************************************************)
\* the collision elements of the blade body, as the tree has them
BladeElements == rbt[CtorArgs.cutting_body_index]

\* the element belongs to a body of the tree
Registered(e) == \E k \in DOMAIN rbt : e \in rbt[k]

\* the body the element belongs to
elementToBody(e) == CHOOSE k \in DOMAIN rbt : e \in rbt[k]

NoBlade(info) ==
    info.element_id_1 \notin BladeElements /\ info.element_id_2 \notin BladeElements

BothBlade(info) ==
    info.element_id_1 \in BladeElements /\ info.element_id_2 \in BladeElements

OneBlade(info) == ~NoBlade(info) /\ ~BothBlade(info)

\* the element of a blade contact that is not the blade's
Other(info) ==
    IF info.element_id_1 \in BladeElements THEN info.element_id_2
    ELSE info.element_id_1

\* the force exerted by the blade: as given when the blade is first, else negated
Oriented(info) ==
    IF info.element_id_1 \in BladeElements THEN info.force
    ELSE <<0 - info.force[1], 0 - info.force[2], 0 - info.force[3]>>

Swapped(info) == [info EXCEPT !.element_id_1 = info.element_id_2,
                              !.element_id_2 = info.element_id_1]

Contacts == 1..Len(contact_results)

\* positions in stdout of what was printed for contact i
EntriesOf(i) == {j \in 1..Len(stdout) : stdout[j].contact_i = i}

\* the world-to-blade transform of this period
Frame == relativeTransform(x, CtorArgs.cutting_body_index, 0)

\* R * v, row by row
Rotated(v) ==
    LET tf == Frame.tf
        Row(r) == tf[r][1] * v[1] + tf[r][2] * v[2] + tf[r][3] * v[3]
    IN  <<Row(1), Row(2), Row(3)>>

\* R * p + t, row by row
Moved(p) ==
    LET tf == Frame.tf
        Row(r) == tf[r][1] * p[1] + tf[r][2] * p[2] + tf[r][3] * p[3] + tf[r][4]
    IN  <<Row(1), Row(2), Row(3)>>

\* every blade contact of the period names registered elements only
AllBladeContactsResolve ==
    \A i \in Contacts :
        ~NoBlade(contact_results[i]) =>
            /\ Registered(contact_results[i].element_id_1)
            /\ Registered(contact_results[i].element_id_2)

\* the guard as __init__ left it
Constructed == [collision_id_to_body_index_map |-> BuildMap(rbt),
                cutting_body_index |-> CtorArgs.cutting_body_index,
                cutting_body_ids |-> rbt[CtorArgs.cutting_body_index]]

(***************************************************************************)
(* Claims.                                                                 *)
(***************************************************************************)
\* C1: a contact whose two elements are both outside the blade's element set
\* gets no event, no registry lookup, and is never the contact the publish
\* fails at, whatever else the period holds.
C1_NonBladeIgnored ==
    published =>
        \A i \in Contacts :
            NoBlade(contact_results[i]) =>
                /\ EntriesOf(i) = {}
                /\ \A j \in 1..Len(lookups) : lookups[j] # i
                /\ raised_at # i

\* C1 witness: a period with a non-blade contact naming the unregistered
\* element, next to a blade contact that was reported
C1_Witness ==
    /\ published /\ raised = "none" /\ Len(stdout) = 1
    /\ \E i \in Contacts :
          /\ NoBlade(contact_results[i])
          /\ 999 \in {contact_results[i].element_id_1,
                      contact_results[i].element_id_2}

\* C2: the body index reported for a contact with exactly one blade element is
\* the body of the other element, whichever side the blade element is on.
C2_StruckBody ==
    published =>
        \A j \in 1..Len(stdout) :
            LET info == contact_results[stdout[j].contact_i]
            IN  (OneBlade(info) /\ stdout[j].body_index # None) =>
                    /\ Registered(Other(info))
                    /\ stdout[j].body_index = elementToBody(Other(info))

\* C2 witness: one period reports a contact with the blade first and one with
\* the blade second
C2_Witness ==
    /\ published /\ Len(stdout) = 2
    /\ stdout[1].body_index # None /\ stdout[2].body_index # None
    /\ OneBlade(contact_results[1]) /\ OneBlade(contact_results[2])
    /\ contact_results[1].element_id_1 \in BladeElements
    /\ contact_results[2].element_id_2 \in BladeElements

\* C3 as claimed: in a period that returns, every contact with exactly one
\* blade element and a registered other element (id 0 included) has exactly
\* one event.
C3_OneEventPerContact ==
    (published /\ raised = "none") =>
        \A i \in Contacts :
            (OneBlade(contact_results[i]) /\ Registered(Other(contact_results[i])))
                => Cardinality(EntriesOf(i)) = 1

\* C4 as claimed: a contact between two blade elements gets no event.
C4_SelfContactSkipped ==
    published =>
        \A i \in Contacts : BothBlade(contact_results[i]) => EntriesOf(i) = {}

\* C5: for a contact with exactly one blade element the reported force is the
\* blade-frame image of the contact force as given (blade first) or negated
\* (blade second); publishing the same period with that contact's elements
\* swapped reports the negated force, the same body and the same point.
C5_ForceOrientation ==
    published =>
        \A j \in 1..Len(stdout) :
            LET e == stdout[j]
                i == e.contact_i
                info == contact_results[i]
                again == DoPublish(Self, [contact_results EXCEPT ![i] = Swapped(info)], x)
                js == {k \in 1..Len(again.stdout) : again.stdout[k].contact_i = i}
            IN  OneBlade(info) =>
                    /\ e.body_force = Rotated(Oriented(info))
                    /\ Cardinality(js) = 1
                    /\ \A k \in js :
                          /\ again.stdout[k].body_force =
                                <<0 - e.body_force[1], 0 - e.body_force[2],
                                  0 - e.body_force[3]>>
                          /\ again.stdout[k].body_index = e.body_index
                          /\ again.stdout[k].body_cut_pt = e.body_cut_pt

\* C5 witness: a period reports the same contact in both element orders, with
\* a force that differs from its negation
C5_Witness ==
    /\ published /\ Len(stdout) = 2 /\ Len(contact_results) = 2
    /\ OneBlade(contact_results[1])
    /\ contact_results[2] = Swapped(contact_results[1])
    /\ stdout[1].body_force # stdout[2].body_force

\* C6 as claimed: with the transform available, the first contact with exactly
\* one blade element whose other element is unregistered fails the period with
\* a KeyError at that contact, and nothing after it is reported.
C6_UnknownElementFails ==
    (published /\ Frame.ok) =>
        \A i \in Contacts :
            LET Unknown(k) == /\ OneBlade(contact_results[k])
                              /\ ~Registered(Other(contact_results[k]))
            IN  (Unknown(i) /\ \A k \in 1..(i - 1) : ~Unknown(k)) =>
                    /\ raised = "KeyError"
                    /\ raised_at = i
                    /\ \A j \in 1..Len(stdout) : stdout[j].contact_i <= i

\* C7: the guard's fields stay as constructed, and what a period reports is
\* what a freshly constructed guard reports on the same inputs.
C7_Stateless ==
    /\ collision_id_to_body_index_map = BuildMap(rbt)
    /\ cutting_body_index = CtorArgs.cutting_body_index
    /\ cutting_body_ids = rbt[CtorArgs.cutting_body_index]
    /\ cut_direction = CtorArgs.cut_direction
    /\ min_cut_force = CtorArgs.min_cut_force
    /\ blade_pts = <<CtorArgs.blade_start_pt, CtorArgs.blade_stop_pt>>
    /\ blade_width = CtorArgs.blade_width
    /\ published =>
          LET fresh == DoPublish(Constructed, contact_results, x)
          IN  /\ stdout = fresh.stdout
              /\ raised = fresh.raised
              /\ raised_at = fresh.raised_at

\* C7 witness: after a period that returned, a second period that reported a
\* cut and then failed on an unregistered element
C7_Witness ==
    /\ t = 1 /\ published /\ raised = "KeyError" /\ Len(stdout) = 2

C9_BladeFrame ==
    published =>
        /\ \A j \in 1..Len(stdout) :
              LET info == contact_results[stdout[j].contact_i]
              IN  /\ stdout[j].body_force = Rotated(Oriented(info))
                  /\ stdout[j].body_cut_pt = Moved(info.point)
        /\ (/\ x = "q_level"
            /\ contact_results = <<[element_id_1 |-> 10, element_id_2 |-> 20,
                                    force |-> <<0, 0, -5000>>,
                                    point |-> <<10, 0, 75>>]>>)
              => stdout = <<[contact_i |-> 1, cut_body_index |-> 20,
                             body_force |-> <<0, 0, -5000>>,
                             body_cut_pt |-> <<10, 0, 0>>,
                             body_index |-> 1]>>

\* C9 witness: a contact reported under the quarter turn, where rotation and
\* translation both change the point
C9_Witness ==
    /\ published /\ x = "q_turned" /\ Len(stdout) = 1
    /\ contact_results[stdout[1].contact_i].point = <<1, 2, 3>>
    /\ stdout[1].body_cut_pt = <<3, -6, -72>>

\* C10: when the publish fails with a KeyError at contact k, what it printed
\* is what it prints for contacts 1..k-1 alone, each with its body index,
\* followed by the blade-frame force and point of contact k without a body
\* index; and when the transform is unavailable no registry lookup runs, so
\* a period that would fail with a KeyError fails with the transform's error
\* instead, no later than at that contact.
C10_PartialOutput ==
    /\ (published /\ raised = "KeyError") =>
          LET k == raised_at
              n == Len(stdout)
              before == DoPublish(Self, SubSeq(contact_results, 1, k - 1), x)
          IN  /\ k \in Contacts
              /\ n >= 1
              /\ before.raised = "none"
              /\ SubSeq(stdout, 1, n - 1) = before.stdout
              /\ \A j \in 1..(n - 1) :
                    stdout[j].body_index # None /\ stdout[j].contact_i < k
              /\ stdout[n].contact_i = k
              /\ stdout[n].body_index = None
              /\ stdout[n].cut_body_index = Other(contact_results[k])
              /\ stdout[n].body_force = Rotated(Oriented(contact_results[k]))
              /\ stdout[n].body_cut_pt = Moved(contact_results[k].point)
    /\ (published /\ ~Frame.ok) =>
          /\ raised # "KeyError"
          /\ lookups = << >>
          /\ \A q \in KinematicStates :
                LET r == DoPublish(Self, contact_results, q)
                IN  r.raised = "KeyError" =>
                        (raised = "RuntimeError" /\ raised_at <= r.raised_at)

\* C10 witness: a period that reported one cut in full and failed at the next
\* contact after printing its force and point
C10_Witness ==
    /\ published /\ raised = "KeyError" /\ raised_at = 2 /\ Len(stdout) = 2
    /\ stdout[1].body_index # None /\ stdout[2].body_index = None

====
